---- MODULE Spec2Model ----
(***************************************************************************)
(* Model of backend/src/agent/configuration.py: the DelayedLLM wrapper     *)
(* (constructor, invoke, ainvoke).                                         *)
(*                                                                         *)
(* Time is counted in integer ticks.  time.time() is modelled by the       *)
(* variable now, which never decreases.  time.sleep(x) and                 *)
(* asyncio.sleep(x) return no earlier than x ticks after they start.       *)
(* Two callers (threads calling invoke, tasks calling ainvoke) share one   *)
(* gate: an invocation issued while the other caller's is running is       *)
(* concurrent with it, one issued after the others have concluded is       *)
(* sequential.  Every statement of invoke/ainvoke that touches the gate    *)
(* or the clock is one step, and the steps of the running invocations      *)
(* interleave freely (there is no lock in the source; ainvoke tasks may    *)
(* run on event loops of different threads).  A local variable is          *)
(* forgotten at its last use.                                              *)
(***************************************************************************)
EXTENDS Integers, Sequences, FiniteSets, TLC

----------------------------------------------------------------------------
(* Bounds *)
MaxCalls == 2
MaxTime == 3
MaxDelay == 2

(* Program constants *)
DefaultDelaySeconds == 60
InitialLastCallTime == 0

None == "None"
NoTime == 0 - 1

Callers == {"caller1", "caller2"}
\* the calls the callers make: invoke("in1") and ainvoke("in2", "cfg1");
\* config defaults to None
CallShapes == {<<"invoke", "in1", None>>, <<"ainvoke", "in2", "cfg1">>}
Responses == {"resp1"}
Errors == {"BackendInvocationError"}

GateKeys == {"delay_seconds", "use_openrouter"}
OPENROUTER_BASE_URL == "https://openrouter.ai/api/v1"
OPENROUTER_PROVIDER == "openrouter"
OPEN_ROUTER_API_KEY == "OPEN_ROUTER_API_KEY"
GEMINI_API_KEY == "GEMINI_API_KEY"

VARIABLES
    now,              \* the value time.time() returns
    environ,          \* os.environ: a function from the set variables to their values
    rawParameters,    \* the keyword arguments given to DelayedLLM(...)
    ctor,             \* "new" before __init__ has run, then "ok" or the error raised
    delay_seconds,    \* self._delay_seconds
    last_call_time,   \* self._last_call_time
    use_openrouter,   \* self._use_openrouter
    llm,              \* self.llm: the backend class and the kwargs its constructor received
    calls,            \* one record per invocation issued so far, in the order issued:
                      \* its position in the code, its locals and what it has done
    last_done,        \* the invocation that concluded most recently, as it ended
    last_dispatch_at, \* when the most recent backend call began
    first_dispatch_at,\* when the first backend call through the gate began
    dispatches,       \* number of backend calls begun so far
    sequential,       \* no invocation was issued yet while another was running
    runnable_config,  \* the config argument of Configuration.from_runnable_config
    configuration     \* what from_runnable_config returned or raised

vars == <<now, environ, rawParameters, ctor, delay_seconds, last_call_time,
          use_openrouter, llm, calls, last_done, last_dispatch_at,
          first_dispatch_at, dispatches, sequential,
          runnable_config, configuration>>

configVars == <<runnable_config, configuration>>

gateVars == <<environ, rawParameters, ctor, delay_seconds, use_openrouter, llm>>

----------------------------------------------------------------------------
(* Dictionaries are functions from a finite set of keys. *)

EmptyDict == [k \in {} |-> None]

Restrict(f, S) == [k \in S |-> f[k]]

\* {**a, **b}: the keys of both, b's value where both have the key
Merge(a, b) ==
    [k \in (DOMAIN a) \cup (DOMAIN b) |-> IF k \in DOMAIN b THEN b[k] ELSE a[k]]

\* os.getenv(name): the value, or None when the variable is not set
os_getenv(env, name) == IF name \in DOMAIN env THEN env[name] ELSE None

\* binding of the call's keyword arguments to the signature of __init__
BoundDelay(raw) ==
    IF "delay_seconds" \in DOMAIN raw THEN raw["delay_seconds"] ELSE DefaultDelaySeconds

BoundUseOpenrouter(raw) ==
    IF "use_openrouter" \in DOMAIN raw THEN raw["use_openrouter"] ELSE TRUE

BoundKwargs(raw) == Restrict(raw, (DOMAIN raw) \ {"delay_seconds", "use_openrouter"})

filtered_kwargs(kwargs) == Restrict(kwargs, (DOMAIN kwargs) \ GateKeys)

\* the dictionary built the other way round: the caller's values come last
openrouter_kwargs_CallerWins(filtered, env) ==
    Merge([k \in {"base_url", "custom_llm_provider", "api_key"} |->
             CASE k = "base_url" -> OPENROUTER_BASE_URL
               [] k = "custom_llm_provider" -> OPENROUTER_PROVIDER
               [] k = "api_key" -> os_getenv(env, OPEN_ROUTER_API_KEY)],
          filtered)

openrouter_kwargs(filtered, env) ==
    Merge(filtered,
          [k \in {"base_url", "custom_llm_provider", "api_key"} |->
             CASE k = "base_url" -> OPENROUTER_BASE_URL
               [] k = "custom_llm_provider" -> OPENROUTER_PROVIDER
               [] k = "api_key" -> os_getenv(env, OPEN_ROUTER_API_KEY)])

\* the alternate backend given the base URL and the provider tag as well
gemini_kwargs_Injecting(filtered, env) ==
    Merge(filtered,
          [k \in {"base_url", "custom_llm_provider", "api_key"} |->
             CASE k = "base_url" -> OPENROUTER_BASE_URL
               [] k = "custom_llm_provider" -> OPENROUTER_PROVIDER
               [] k = "api_key" -> os_getenv(env, GEMINI_API_KEY)])

gemini_kwargs(filtered, env) ==
    Merge(filtered, [k \in {"api_key"} |-> os_getenv(env, GEMINI_API_KEY)])

\* the backend client class and the keyword arguments its constructor was given
ChatLiteLLM(kwargs) == [class |-> "ChatLiteLLM", kwargs |-> kwargs]
ChatGoogleGenerativeAI(kwargs) == [class |-> "ChatGoogleGenerativeAI", kwargs |-> kwargs]
NoClient == [class |-> None, kwargs |-> EmptyDict]

\* a constructor that hands every keyword argument it was called with to the backend
BackendClient_Unfiltered(raw, env) ==
    IF BoundUseOpenrouter(raw)
    THEN ChatLiteLLM(openrouter_kwargs(raw, env))
    ELSE ChatGoogleGenerativeAI(gemini_kwargs(raw, env))

\* lines 163-178: the backend client __init__ builds
BackendClient(raw, env) ==
    IF BoundUseOpenrouter(raw)
    THEN ChatLiteLLM(openrouter_kwargs(filtered_kwargs(BoundKwargs(raw)), env))
    ELSE ChatGoogleGenerativeAI(gemini_kwargs(filtered_kwargs(BoundKwargs(raw)), env))

\* DelayedLLM.__init__: lines 144-178
DelayedLLM_init ==
    /\ ctor = "new"
    /\ ctor' = "ok"
    /\ delay_seconds' = BoundDelay(rawParameters)
    /\ last_call_time' = InitialLastCallTime
    /\ use_openrouter' = BoundUseOpenrouter(rawParameters)
    /\ llm' = BackendClient(rawParameters, environ)
    /\ UNCHANGED <<now, environ, rawParameters, calls, last_done, last_dispatch_at,
                 first_dispatch_at, dispatches, sequential, configVars>>

----------------------------------------------------------------------------
(* Configuration.from_runnable_config *)

\* Python values are written as strings: the type, a colon, the value.
StrValues == {"str:google/gemini-2.5-flash-lite", "str:env-model", "str:cfg-model",
              "str:30", "str:7", "str:abc"}
IntValues == {"int:120", "int:45", "int:30", "int:7"}

\* two of the fields of Configuration: one of type str, one of type int
Fields == {"coordinator_model", "api_call_delay_seconds"}

FieldType(name) ==
    CASE name = "coordinator_model" -> "str"
      [] name = "api_call_delay_seconds" -> "int"

FieldDefault(name) ==
    CASE name = "coordinator_model" -> "str:google/gemini-2.5-flash-lite"
      [] name = "api_call_delay_seconds" -> "int:120"

\* name.upper()
upper(name) ==
    CASE name = "coordinator_model" -> "COORDINATOR_MODEL"
      [] name = "api_call_delay_seconds" -> "API_CALL_DELAY_SECONDS"

\* d.get(key, default)
dict_get(d, key, default) == IF key \in DOMAIN d THEN d[key] ELSE default

\* the config argument: not given (None), or a dictionary
NoConfig == [given |-> FALSE, dict |-> EmptyDict]

\* line 120-122: config["configurable"] if config and "configurable" in config else {}
configurable(config) ==
    IF config.given /\ DOMAIN config.dict # {} /\ "configurable" \in DOMAIN config.dict
    THEN config.dict["configurable"]
    ELSE EmptyDict

\* the lookup the other way round: the configurable value first, then the environment
raw_values_ConfigFirst(config, env) ==
    [name \in Fields |->
        dict_get(configurable(config), name, dict_get(env, upper(name), None))]

\* lines 125-128
raw_values(config, env) ==
    [name \in Fields |->
        dict_get(env, upper(name), dict_get(configurable(config), name, None))]

\* line 131: the entries that are not None
values(raw) == Restrict(raw, {k \in DOMAIN raw : raw[k] # None})

\* pydantic's conversion of a str to an int: decimal digits, else not valid
Invalid == "ValidationError"

int_of_str(v) ==
    CASE v = "str:30" -> "int:30"
      [] v = "str:7" -> "int:7"
      [] OTHER -> Invalid

\* pydantic's validation of a value given for a field of the type
validate(type, v) ==
    CASE type = "str" -> IF v \in StrValues THEN v ELSE Invalid
      [] type = "int" -> IF v \in IntValues THEN v ELSE int_of_str(v)

\* before the call: nothing returned, nothing raised
NotCalled == [status |-> "new", fields |-> EmptyDict]

\* line 133, cls(**values): every given value is validated, a field not given
\* takes its default; one value that is not valid fails the whole construction
Configuration_init(vals) ==
    LET f == [name \in Fields |->
                IF name \in DOMAIN vals THEN validate(FieldType(name), vals[name])
                ELSE FieldDefault(name)]
    IN IF \E name \in Fields : f[name] = Invalid
       THEN [status |-> "ValidationError", fields |-> EmptyDict]
       ELSE [status |-> "ok", fields |-> f]

\* Configuration.from_runnable_config(config): lines 115-133
from_runnable_config ==
    /\ configuration.status = "new"
    /\ configuration' = Configuration_init(values(raw_values(runnable_config, environ)))
    /\ UNCHANGED <<now, environ, rawParameters, ctor, delay_seconds, last_call_time,
                 use_openrouter, llm, calls, last_done, last_dispatch_at,
                 first_dispatch_at, dispatches, sequential, runnable_config>>

----------------------------------------------------------------------------
(* invoke / ainvoke *)

\* line 183 / 199: time_since_last_call = current_time - self._last_call_time
time_since_last_call(current_time, last) == current_time - last

\* a test that lets a call through one tick early
MustWait_OffByOne(elapsed, delay) == elapsed + 1 < delay

\* line 185 / 201: the test that decides whether the call sleeps
MustWait(elapsed, delay) == elapsed < delay

\* a sleep that is one tick short
sleep_time_Short(delay, elapsed) == delay - elapsed - 1

\* line 186 / 202: sleep_time = self._delay_seconds - time_since_last_call
sleep_time(delay, elapsed) == delay - elapsed

\* time.sleep(x) / asyncio.sleep(x) started at t returns no earlier than t + x
WakeTime(t, x) == t + x

Ids == 1..Len(calls)
Running == {i \in Ids : calls[i].pc # "done"}

NewCall(kind, input, config) ==
    [pc |-> "compute", kind |-> kind, input |-> input, config |-> config,
     current_time |-> now,       \* line 182 / 198
     last_read |-> NoTime,       \* the self._last_call_time read at line 183 / 199
     sleep_time |-> NoTime,      \* line 186 / 202
     wake_at |-> NoTime,         \* the earliest time the sleep returns
     clock2 |-> NoTime,          \* the time.time() read at line 191 / 207
     waited |-> FALSE,           \* the branch of line 185 / 201 was taken
     writes |-> 0,               \* number of stores to self._last_call_time
     stamp |-> NoTime,           \* the value it stored
     dispatched |-> NoTime,      \* when its backend call began
     prev_dispatched |-> NoTime, \* when the previous backend call through the gate began
     received |-> <<>>,          \* the operation and arguments the backend was called with
     ncalls |-> 0,               \* number of backend calls made
     backend |-> <<>>,           \* what the backend call did: <<"return", r>> or <<"raise", e>>
     ended |-> NoTime,           \* when the backend call concluded
     cancelled |-> None,         \* where the task was cancelled: "wait" or "backend"
     result |-> <<>>]            \* what the caller got: <<"return", r>> or <<"raise", e>>

\* an invocation that was never made, and one that is over
NoCall == [NewCall(None, None, None) EXCEPT !.pc = "none", !.current_time = NoTime]
Gone == [NoCall EXCEPT !.pc = "done"]

\* invoke/ainvoke has returned or raised: its arguments and locals are gone,
\* what it did is what the caller and the backend have seen of it
Leave(r, backend, result) ==
    [r EXCEPT !.pc = "done", !.backend = backend, !.result = result,
              !.kind = None, !.input = None, !.config = None, !.received = <<>>,
              !.current_time = NoTime, !.last_read = NoTime, !.sleep_time = NoTime,
              !.wake_at = NoTime, !.clock2 = NoTime, !.waited = FALSE,
              !.dispatched = NoTime, !.prev_dispatched = NoTime]

Conclude(i, ended, cancelled, backend, result) ==
    /\ calls' = [calls EXCEPT ![i] = Gone]
    /\ last_done' = Leave([calls[i] EXCEPT !.ended = ended, !.cancelled = cancelled],
                          backend, result)

\* lines 180-182 / 194-198: the call is made and reads the clock
Invoke(kind, input, config) ==
    /\ ctor = "ok"
    /\ Len(calls) < MaxCalls
    /\ Cardinality(Running) < Cardinality(Callers)
    /\ calls' = Append(calls, NewCall(kind, input, config))
    /\ sequential' = (sequential /\ Running = {})
    /\ UNCHANGED <<now, last_call_time, last_done, last_dispatch_at,
                 first_dispatch_at, dispatches, gateVars, configVars>>

\* the wait held inside a critical section: no caller decides while another sleeps
Compute_Exclusive(i) ==
    /\ calls[i].pc = "compute"
    /\ \A j \in Ids : calls[j].pc # "sleeping"
    /\ LET r == calls[i]
           elapsed == time_since_last_call(r.current_time, last_call_time)
       IN IF MustWait(elapsed, delay_seconds)
          THEN calls' = [calls EXCEPT ![i] =
                          [r EXCEPT !.pc = "sleeping",
                                    !.current_time = NoTime,
                                    !.last_read = last_call_time,
                                    !.waited = TRUE,
                                    !.sleep_time = sleep_time(delay_seconds, elapsed),
                                    !.wake_at = WakeTime(now, sleep_time(delay_seconds, elapsed))]]
          ELSE calls' = [calls EXCEPT ![i] =
                          [r EXCEPT !.pc = "clock",
                                    !.current_time = NoTime,
                                    !.last_read = last_call_time]]
    /\ UNCHANGED <<now, last_call_time, last_done, last_dispatch_at,
                 first_dispatch_at, dispatches, sequential, gateVars, configVars>>

\* lines 183-189 / 199-205: read the last call time, decide, and start to sleep.
\* The diagnostic print of lines 187-188 / 203-204 changes no state.  The sleep
\* starts in the same step: starting it later only makes it return later,
\* which Wake allows at any time from wake_at on.
Compute(i) ==
    /\ calls[i].pc = "compute"
    /\ LET r == calls[i]
           elapsed == time_since_last_call(r.current_time, last_call_time)
       IN IF MustWait(elapsed, delay_seconds)
          THEN calls' = [calls EXCEPT ![i] =
                          [r EXCEPT !.pc = "sleeping",
                                    !.current_time = NoTime,
                                    !.last_read = last_call_time,
                                    !.waited = TRUE,
                                    !.sleep_time = sleep_time(delay_seconds, elapsed),
                                    !.wake_at = WakeTime(now, sleep_time(delay_seconds, elapsed))]]
          ELSE calls' = [calls EXCEPT ![i] =
                          [r EXCEPT !.pc = "clock",
                                    !.current_time = NoTime,
                                    !.last_read = last_call_time]]
    /\ UNCHANGED <<now, last_call_time, last_done, last_dispatch_at,
                 first_dispatch_at, dispatches, sequential, gateVars, configVars>>

\* line 189 / 205: the sleep returns
Wake(i) ==
    /\ calls[i].pc = "sleeping"
    /\ now >= calls[i].wake_at
    /\ calls' = [calls EXCEPT ![i].pc = "clock",
                              ![i].sleep_time = NoTime,
                              ![i].wake_at = NoTime]
    /\ UNCHANGED <<now, last_call_time, last_done, last_dispatch_at,
                 first_dispatch_at, dispatches, sequential, gateVars, configVars>>

\* a cancellation handler that records the timestamp before it re-raises
CancelWait_Stamps(i) ==
    /\ calls[i].pc = "sleeping"
    /\ calls[i].kind = "ainvoke"
    /\ last_call_time' = now
    /\ calls' = [calls EXCEPT ![i] = Gone]
    /\ last_done' = Leave([calls[i] EXCEPT !.cancelled = "wait", !.writes = @ + 1],
                          <<>>, <<"raise", "CancelledError">>)
    /\ UNCHANGED <<now, last_dispatch_at,
                 first_dispatch_at, dispatches, sequential, gateVars, configVars>>

\* line 205: the task is cancelled while suspended in asyncio.sleep;
\* CancelledError is raised at the await and leaves ainvoke
CancelWait(i) ==
    /\ calls[i].pc = "sleeping"
    /\ calls[i].kind = "ainvoke"
    /\ Conclude(i, NoTime, "wait", <<>>, <<"raise", "CancelledError">>)
    /\ UNCHANGED <<now, last_call_time, last_dispatch_at,
                 first_dispatch_at, dispatches, sequential, gateVars, configVars>>

\* a gate that lets no caller go past its wait while a backend call is under way
ReadClock_BehindBackend(i) ==
    /\ calls[i].pc = "clock"
    /\ \A j \in Ids : calls[j].pc # "backend"
    /\ calls' = [calls EXCEPT ![i].pc = "store", ![i].clock2 = now]
    /\ UNCHANGED <<now, last_call_time, last_done, last_dispatch_at,
                 first_dispatch_at, dispatches, sequential, gateVars, configVars>>

\* line 191 / 207, right-hand side: time.time()
ReadClock(i) ==
    /\ calls[i].pc = "clock"
    /\ calls' = [calls EXCEPT ![i].pc = "store", ![i].clock2 = now]
    /\ UNCHANGED <<now, last_call_time, last_done, last_dispatch_at,
                 first_dispatch_at, dispatches, sequential, gateVars, configVars>>

\* the store left out: the call goes on to the backend without recording its time
StoreLast_Skip(i) ==
    /\ calls[i].pc = "store"
    /\ calls' = [calls EXCEPT ![i].pc = "dispatch", ![i].clock2 = NoTime]
    /\ UNCHANGED <<now, last_call_time, last_done, last_dispatch_at,
                 first_dispatch_at, dispatches, sequential, gateVars, configVars>>

\* line 191 / 207, the store to self._last_call_time
StoreLast(i) ==
    /\ calls[i].pc = "store"
    /\ last_call_time' = calls[i].clock2
    /\ calls' = [calls EXCEPT ![i].pc = "dispatch",
                              ![i].writes = @ + 1,
                              ![i].stamp = calls[i].clock2,
                              ![i].clock2 = NoTime]
    /\ UNCHANGED <<now, last_done, last_dispatch_at,
                 first_dispatch_at, dispatches, sequential, gateVars, configVars>>

\* a backend call made with the input alone, the config left out
Dispatch_NoConfig(i) ==
    /\ calls[i].pc = "dispatch"
    /\ calls' = [calls EXCEPT ![i].pc = "backend",
                              ![i].dispatched = now,
                              ![i].prev_dispatched = last_dispatch_at,
                              ![i].ncalls = @ + 1,
                              ![i].received = <<calls[i].kind, calls[i].input, None>>]
    /\ last_dispatch_at' = now
    /\ first_dispatch_at' = (IF dispatches = 0 THEN now ELSE first_dispatch_at)
    /\ dispatches' = dispatches + 1
    /\ UNCHANGED <<now, last_call_time, last_done, sequential, gateVars, configVars>>

\* line 192 / 208: self.llm.invoke(input, config) / self.llm.ainvoke(input, config) is called
Dispatch(i) ==
    /\ calls[i].pc = "dispatch"
    /\ calls' = [calls EXCEPT ![i].pc = "backend",
                              ![i].dispatched = now,
                              ![i].prev_dispatched = last_dispatch_at,
                              ![i].ncalls = @ + 1,
                              ![i].received = <<calls[i].kind, calls[i].input, calls[i].config>>]
    /\ last_dispatch_at' = now
    /\ first_dispatch_at' = (IF dispatches = 0 THEN now ELSE first_dispatch_at)
    /\ dispatches' = dispatches + 1
    /\ UNCHANGED <<now, last_call_time, last_done, sequential, gateVars, configVars>>

\* an invoke that records the timestamp once more when the backend call has returned
BackendReturn_Restamp(i, r) ==
    /\ calls[i].pc = "backend"
    /\ last_call_time' = now
    /\ calls' = [calls EXCEPT ![i] = Gone]
    /\ last_done' = Leave([calls[i] EXCEPT !.ended = now, !.writes = @ + 1],
                          <<"return", r>>, <<"return", r>>)
    /\ UNCHANGED <<now, last_dispatch_at,
                 first_dispatch_at, dispatches, sequential, gateVars, configVars>>

\* line 192 / 208: the backend call returns r, which invoke/ainvoke returns
BackendReturn(i, r) ==
    /\ calls[i].pc = "backend"
    /\ Conclude(i, now, None, <<"return", r>>, <<"return", r>>)
    /\ UNCHANGED <<now, last_call_time, last_dispatch_at,
                 first_dispatch_at, dispatches, sequential, gateVars, configVars>>

\* an invoke that catches the backend's error and calls the backend again
BackendRaise_Retry(i, e) ==
    /\ calls[i].pc = "backend"
    /\ calls[i].ncalls < 2
    /\ calls' = [calls EXCEPT ![i].pc = "dispatch", ![i].backend = <<"raise", e>>]
    /\ UNCHANGED <<now, last_call_time, last_done, last_dispatch_at,
                 first_dispatch_at, dispatches, sequential, gateVars, configVars>>

\* line 192 / 208: the backend call raises e; nothing catches it
BackendRaise(i, e) ==
    /\ calls[i].pc = "backend"
    /\ Conclude(i, now, None, <<"raise", e>>, <<"raise", e>>)
    /\ UNCHANGED <<now, last_call_time, last_dispatch_at,
                 first_dispatch_at, dispatches, sequential, gateVars, configVars>>

\* a cancellation that also discards the gate's backend client
CancelBackend_DropsClient(i) ==
    /\ calls[i].pc = "backend"
    /\ calls[i].kind = "ainvoke"
    /\ Conclude(i, now, "backend", <<"raise", "CancelledError">>,
                <<"raise", "CancelledError">>)
    /\ llm' = NoClient
    /\ UNCHANGED <<now, last_call_time, last_dispatch_at, first_dispatch_at,
                 dispatches, sequential, environ, rawParameters, ctor,
                 delay_seconds, use_openrouter, configVars>>

\* line 208: the task is cancelled while suspended in the backend's ainvoke
CancelBackend(i) ==
    /\ calls[i].pc = "backend"
    /\ calls[i].kind = "ainvoke"
    /\ Conclude(i, now, "backend", <<"raise", "CancelledError">>,
                <<"raise", "CancelledError">>)
    /\ UNCHANGED <<now, last_call_time, last_dispatch_at,
                 first_dispatch_at, dispatches, sequential, gateVars, configVars>>

\* the clock advances
Tick ==
    /\ now < MaxTime
    /\ now' = now + 1
    /\ UNCHANGED <<calls, last_call_time, last_done, last_dispatch_at,
                 first_dispatch_at, dispatches, sequential, gateVars, configVars>>

----------------------------------------------------------------------------
(* Specification of the calls through one gate: the state after            *)
(* DelayedLLM(delay_seconds=d, use_openrouter=u, model="m1") has returned. *)

GateBags ==
    {[k \in {"delay_seconds", "use_openrouter", "model"} |->
        CASE k = "delay_seconds" -> d
          [] k = "use_openrouter" -> u
          [] k = "model" -> "m1"] : d \in 0..MaxDelay, u \in BOOLEAN}

FullEnv == [k \in {OPEN_ROUTER_API_KEY, GEMINI_API_KEY} |->
              IF k = OPEN_ROUTER_API_KEY THEN "or-secret" ELSE "gm-secret"]

Init ==
    /\ now = 0
    /\ environ = FullEnv
    /\ rawParameters \in GateBags
    /\ ctor = "ok"
    /\ delay_seconds = BoundDelay(rawParameters)
    /\ last_call_time = InitialLastCallTime
    /\ use_openrouter = BoundUseOpenrouter(rawParameters)
    /\ llm = BackendClient(rawParameters, environ)
    /\ calls = <<>>
    /\ last_done = NoCall
    /\ last_dispatch_at = NoTime
    /\ first_dispatch_at = NoTime
    /\ dispatches = 0
    /\ sequential = TRUE
    /\ runnable_config = NoConfig
    /\ configuration = NotCalled

Next ==
    \/ Tick
    \/ \E s \in CallShapes : Invoke(s[1], s[2], s[3])
    \/ \E i \in Ids : Compute(i)
    \/ \E i \in Ids : Wake(i)
    \/ \E i \in Ids : CancelWait(i)
    \/ \E i \in Ids : ReadClock(i)
    \/ \E i \in Ids : StoreLast(i)
    \/ \E i \in Ids : Dispatch(i)
    \/ \E i \in Ids, r \in Responses : BackendReturn(i, r)
    \/ \E i \in Ids, e \in Errors : BackendRaise(i, e)
    \/ \E i \in Ids : CancelBackend(i)

Spec == Init /\ [][Next]_vars

\* the next statement of invocation i, up to the call of the backend; the
\* backend call itself and cancellations are the environment's
Proceed(i) ==
    /\ i \in Ids
    /\ \/ Compute(i)
       \/ Wake(i)
       \/ ReadClock(i)
       \/ StoreLast(i)
       \/ Dispatch(i)

\* Fair scheduling of the callers and a clock that advances (up to MaxTime):
\* a thread or task that can execute its next statement eventually does, and
\* a sleep whose time has come returns.
SpecFair ==
    /\ Init
    /\ [][Next]_vars
    /\ WF_vars(Tick)
    /\ \A i \in 1..MaxCalls : WF_vars(Proceed(i))

----------------------------------------------------------------------------
(* Specification of the construction: DelayedLLM is called with any of    *)
(* the bags of keyword arguments below, in any environment.                *)

PassKeys == {"model", "api_key", "base_url", "custom_llm_provider"}

\* what the caller passes under a pass-through key
PassValue(k) ==
    CASE k = "model" -> "m1"
      [] k = "api_key" -> "caller-key"
      [] k = "base_url" -> "caller-url"
      [] k = "custom_llm_provider" -> "caller-provider"

CtorBags ==
    {Merge(a, Merge(b, c)) :
        a \in {EmptyDict} \cup {[k \in {"delay_seconds"} |-> d] : d \in 0..MaxDelay},
        b \in {EmptyDict} \cup {[k \in {"use_openrouter"} |-> u] : u \in BOOLEAN},
        c \in {[k \in K |-> PassValue(k)] : K \in SUBSET PassKeys}}

Envs ==
    {[k \in K |-> IF k = OPEN_ROUTER_API_KEY THEN "or-secret" ELSE "gm-secret"] :
        K \in SUBSET {OPEN_ROUTER_API_KEY, GEMINI_API_KEY}}

InitCtor ==
    /\ now = 0
    /\ environ \in Envs
    /\ rawParameters \in CtorBags
    /\ ctor = "new"
    /\ delay_seconds = None
    /\ last_call_time = None
    /\ use_openrouter = None
    /\ llm = NoClient
    /\ calls = <<>>
    /\ last_done = NoCall
    /\ last_dispatch_at = NoTime
    /\ first_dispatch_at = NoTime
    /\ dispatches = 0
    /\ sequential = TRUE
    /\ runnable_config = NoConfig
    /\ configuration = NotCalled

NextCtor == DelayedLLM_init

SpecCtor == InitCtor /\ [][NextCtor]_vars

----------------------------------------------------------------------------
(* Specification of Configuration.from_runnable_config: it is called with *)
(* any of the config arguments below, in any of the environments below.   *)

\* what the process environment holds under a name
EnvValues(name) ==
    CASE name = "COORDINATOR_MODEL" -> {"str:env-model"}
      [] name = "API_CALL_DELAY_SECONDS" -> {"str:30", "str:abc"}
      [] name = "api_call_delay_seconds" -> {"str:7"}

\* environments: each name set or not; names are case-sensitive
ConfigEnvs ==
    UNION {[K -> StrValues] : K \in SUBSET {"COORDINATOR_MODEL", "API_CALL_DELAY_SECONDS",
                                            "api_call_delay_seconds"}}

\* what a caller puts under a field in config["configurable"]
ConfigurableValues(name) ==
    CASE name = "coordinator_model" -> {None, "str:cfg-model"}
      [] name = "api_call_delay_seconds" -> {None, "int:45"}

Configurables ==
    UNION {{m \in [K -> {None, "str:cfg-model", "int:45"}] :
              \A k \in K : m[k] \in ConfigurableValues(k)} : K \in SUBSET Fields}

\* no config, the empty config, a config without "configurable", and configs
\* with a "configurable" entry
RunnableConfigs ==
    {NoConfig, [given |-> TRUE, dict |-> EmptyDict],
     [given |-> TRUE, dict |-> [k \in {"tags"} |-> "tag1"]]}
    \cup {[given |-> TRUE, dict |-> [k \in {"configurable"} |-> m]] : m \in Configurables}

InitConfig ==
    /\ now = 0
    /\ environ \in {e \in ConfigEnvs : \A k \in DOMAIN e : e[k] \in EnvValues(k)}
    /\ runnable_config \in RunnableConfigs
    /\ configuration = NotCalled
    /\ rawParameters = EmptyDict
    /\ ctor = "new"
    /\ delay_seconds = None
    /\ last_call_time = None
    /\ use_openrouter = None
    /\ llm = NoClient
    /\ calls = <<>>
    /\ last_done = NoCall
    /\ last_dispatch_at = NoTime
    /\ first_dispatch_at = NoTime
    /\ dispatches = 0
    /\ sequential = TRUE

NextConfig == from_runnable_config

SpecConfig == InitConfig /\ [][NextConfig]_vars

----------------------------------------------------------------------------
(* Properties of the calls through one gate (Spec) *)

InBackend == {i \in Ids : calls[i].pc = "backend"}
AtDispatch == {i \in Ids : calls[i].pc = "dispatch"}

\* C1: with delay_seconds > 0 and concurrent callers, every backend dispatch
\* begins at least delay_seconds after the previous dispatch through the gate.
C1_ConcurrentDispatchesApart ==
    (delay_seconds > 0 /\ ~sequential) =>
        \A i \in InBackend :
            calls[i].prev_dispatched # NoTime =>
                calls[i].dispatched - calls[i].prev_dispatched >= delay_seconds

C5_FirstCallFree == Len(calls) = 1 => ~calls[1].waited

\* C6: with delay_seconds = 0 no call waits.
C6_ZeroIntervalNeverWaits == delay_seconds = 0 => \A i \in Ids : ~calls[i].waited

\* C7: an ainvoke cancelled during its rate-limit wait has not written
\* last_call_time, has not called the backend, and raised CancelledError to
\* its caller.
C7_CancelledWaitIsClean ==
    last_done.cancelled = "wait" =>
        /\ last_done.writes = 0
        /\ last_done.stamp = NoTime
        /\ last_done.ncalls = 0
        /\ last_done.backend = <<>>
        /\ last_done.result = <<"raise", "CancelledError">>

\* an ainvoke was cancelled in its wait while the gate had been used before
C7_Witness ==
    /\ last_done.cancelled = "wait"
    /\ last_call_time > InitialLastCallTime

\* C10: when the backend call raises, the caller gets that same error, and the
\* backend was called once for the invocation.
C10_BackendErrorPropagates ==
    /\ \A i \in Running : calls[i].ncalls <= 1 /\ calls[i].backend = <<>>
    /\ (last_done.backend # <<>> /\ last_done.backend[1] = "raise") =>
          /\ last_done.result = last_done.backend
          /\ last_done.ncalls = 1

\* the backend raised its own error to an invocation
C10_Witness == last_done.backend = <<"raise", "BackendInvocationError">>

\* C11: whenever the backend call of an invocation has concluded (returned,
\* raised, or cancelled while in the backend), that invocation has stored its
\* timestamp into _last_call_time exactly once, whatever the outcome; when no
\* other invocation ran alongside, the stored value is the one the next call
\* will be measured against.
C11_StampedOnEveryOutcome ==
    /\ \A i \in Ids : calls[i].pc = "backend" =>
          calls[i].writes = 1 /\ calls[i].stamp # NoTime
    /\ last_done.ended # NoTime =>
          /\ last_done.writes = 1
          /\ last_done.stamp # NoTime
          /\ last_done.stamp <= last_done.ended
          /\ (sequential /\ Running = {}) => last_call_time = last_done.stamp

\* a backend call that was cancelled, after which the stored timestamp is the
\* one of that attempt
C11_Witness ==
    /\ last_done.ended # NoTime
    /\ last_done.cancelled = "backend"
    /\ last_done.stamp > InitialLastCallTime
    /\ last_call_time = last_done.stamp

\* C12: when callers use one gate concurrently with a minimum interval d > 0,
\* the time from the first backend dispatch to the last one is at least
\* (M - 1) * d, M being the number of dispatches made.
C12_ConcurrentSpan ==
    (~sequential /\ delay_seconds > 0 /\ dispatches >= 2) =>
        last_dispatch_at - first_dispatch_at >= (dispatches - 1) * delay_seconds

\* C13: invoke calls the backend's invoke, and ainvoke the backend's ainvoke,
\* once, with exactly the input and the config it was given, and what the
\* backend returns is exactly what the caller gets back.
C13_PassThrough ==
    /\ \A i \in Ids :
          /\ calls[i].pc = "backend" =>
                /\ calls[i].received = <<calls[i].kind, calls[i].input, calls[i].config>>
                /\ calls[i].ncalls = 1
          /\ calls[i].pc \in {"compute", "sleeping", "clock", "store", "dispatch"} =>
                calls[i].received = <<>> /\ calls[i].ncalls = 0
    /\ (last_done.backend # <<>> /\ last_done.backend[1] = "return") =>
          /\ last_done.result = last_done.backend
          /\ last_done.ncalls = 1

\* one call has returned the backend's response while an ainvoke given a
\* config is inside the backend's ainvoke
C13_Witness ==
    /\ last_done.result = <<"return", "resp1">>
    /\ \E i \in Ids : /\ calls[i].pc = "backend"
                      /\ calls[i].received = <<"ainvoke", "in2", "cfg1">>

\* C15: in the step that decides the wait, elapsed is the clock value read at
\* entry minus the stored _last_call_time; when elapsed < delay_seconds the call
\* sleeps exactly delay_seconds - elapsed, when elapsed >= delay_seconds it does
\* not sleep; and, the clock never running backward, no call sleeps longer than
\* delay_seconds.
C15_WaitRule ==
    [][\A i \in Ids :
          (calls[i].pc = "compute" /\ calls'[i].pc # "compute") =>
             LET elapsed == calls[i].current_time - last_call_time
             IN /\ elapsed < delay_seconds =>
                      /\ calls'[i].pc = "sleeping"
                      /\ calls'[i].sleep_time = delay_seconds - elapsed
                /\ elapsed >= delay_seconds => calls'[i].pc = "clock"
                /\ calls'[i].pc = "sleeping" => calls'[i].sleep_time <= delay_seconds]_vars

\* C16: while one caller is in its rate-limit wait, any other caller that has
\* read the clock can go on to read _last_call_time and decide its own wait.
C16_WaitOutsideCriticalSection ==
    \A i \in Ids : \A j \in Ids \ {i} :
        (calls[i].pc = "sleeping" /\ calls[j].pc = "compute") => ENABLED Compute(j)

\* two callers are in their waits at once: one of them decided its wait while
\* the other was already waiting
C16_Witness ==
    \E i \in Ids : \E j \in Ids \ {i} :
        calls[i].pc = "sleeping" /\ calls[j].pc = "sleeping"

\* C17: with a minimum interval d > 0, two callers never both decide their
\* wait from the same stored _last_call_time value and then both call the
\* backend on the basis of it.
C17_DecideAndCommitIndivisible ==
    delay_seconds > 0 =>
        \A i \in Ids : \A j \in Ids \ {i} :
            (calls[i].pc = "backend" /\ calls[j].pc = "backend") =>
                calls[i].last_read # calls[j].last_read

\* C18: no step of invoke or ainvoke, whether the call returns, raises or is
\* cancelled, changes the minimum interval, the provider flag or the backend
\* client of the gate; _last_call_time is the only field they write.
C18_OnlyLastCallTimeChanges ==
    [][ctor = "ok" => /\ delay_seconds' = delay_seconds
                      /\ use_openrouter' = use_openrouter
                      /\ llm' = llm]_vars

\* two backend calls were made through a gate, the last one concluded by a
\* cancellation, and the gate still holds the client it was built with
C18_Witness ==
    /\ dispatches = 2
    /\ last_done.cancelled = "backend"
    /\ last_call_time # InitialLastCallTime
    /\ llm = BackendClient(rawParameters, environ)

\* C19: the clock never running backward, the stored _last_call_time never
\* decreases, in any interleaving of the callers' clock reads and stores.
C19_LastCallTimeNeverDecreases ==
    [][last_call_time' >= last_call_time]_vars

\* invocation i has been issued and has not yet called the backend
Pending(i) ==
    i \in Ids /\ calls[i].pc \in {"compute", "sleeping", "clock", "store", "dispatch"}

\* invocation i sleeps until a time the modelled clock does not reach
BeyondHorizon(i) ==
    i \in Ids /\ calls[i].pc = "sleeping" /\ calls[i].wake_at > MaxTime

\* C20: under fair scheduling and an advancing clock, every invocation that
\* is not cancelled in its wait eventually calls the backend, having called
\* it exactly once, however many callers run concurrently (waits that end
\* after the last modelled clock value excepted).
C20_EveryCallDispatches ==
    \A i \in 1..MaxCalls :
        Pending(i) ~> \/ i \in Ids /\ calls[i].pc = "backend" /\ calls[i].ncalls = 1
                      \/ i \in Ids /\ calls[i].pc = "done"
                      \/ BeyondHorizon(i)

\* an invocation that had to wait is in its backend call while another
\* invocation of the same gate is running
C20_Witness ==
    \E i \in Ids : \E j \in Ids \ {i} :
        /\ calls[i].pc = "backend" /\ calls[i].waited /\ calls[i].ncalls = 1
        /\ calls[j].pc # "done"

----------------------------------------------------------------------------
(* Properties of the construction (SpecCtor) *)

SelectedCredential ==
    IF BoundUseOpenrouter(rawParameters) THEN OPEN_ROUTER_API_KEY ELSE GEMINI_API_KEY

\* C8: when the environment credential of the selected backend is absent,
\* construction fails with MissingCredential and builds no backend client.
C8_MissingCredentialRaised ==
    (ctor # "new" /\ SelectedCredential \notin DOMAIN environ) =>
        /\ ctor = "MissingCredential"
        /\ llm = NoClient

\* C9: the backend constructor receives neither gate-specific key and receives
\* every other key of the raw parameter bag.
C9_GateKeysFiltered ==
    ctor = "ok" =>
        /\ (DOMAIN llm.kwargs) \cap GateKeys = {}
        /\ ((DOMAIN rawParameters) \ GateKeys) \subseteq DOMAIN llm.kwargs

\* a gate was built for the alternate backend from a bag that held both
\* gate-specific keys and pass-through keys
C9_Witness ==
    /\ ctor = "ok"
    /\ GateKeys \subseteq DOMAIN rawParameters
    /\ "model" \in DOMAIN rawParameters
    /\ llm.class = "ChatGoogleGenerativeAI"

\* the keys of the raw parameter bag that are not the gate's own
PassedKeys == (DOMAIN rawParameters) \ GateKeys

\* C14: a gate built for the primary provider holds a ChatLiteLLM client given
\* the filtered parameters, the fixed base URL, the fixed provider tag and the
\* value of OPEN_ROUTER_API_KEY; a gate built for the alternate provider holds
\* a ChatGoogleGenerativeAI client given the filtered parameters and the value
\* of GEMINI_API_KEY, and no base URL or provider tag of the gate's.
C14_ClientPerProvider ==
    ctor = "ok" =>
        IF use_openrouter
        THEN /\ llm.class = "ChatLiteLLM"
             /\ DOMAIN llm.kwargs =
                    PassedKeys \cup {"base_url", "custom_llm_provider", "api_key"}
             /\ llm.kwargs["base_url"] = "https://openrouter.ai/api/v1"
             /\ llm.kwargs["custom_llm_provider"] = "openrouter"
             /\ llm.kwargs["api_key"] = os_getenv(environ, "OPEN_ROUTER_API_KEY")
             /\ \A k \in PassedKeys \ {"base_url", "custom_llm_provider", "api_key"} :
                    llm.kwargs[k] = rawParameters[k]
        ELSE /\ llm.class = "ChatGoogleGenerativeAI"
             /\ DOMAIN llm.kwargs = PassedKeys \cup {"api_key"}
             /\ llm.kwargs["api_key"] = os_getenv(environ, "GEMINI_API_KEY")
             /\ \A k \in PassedKeys \ {"api_key"} : llm.kwargs[k] = rawParameters[k]

\* a gate built for the alternate provider from parameters without a base
\* URL, with the alternate credential set in the environment
C14_Witness ==
    /\ ctor = "ok"
    /\ use_openrouter = FALSE
    /\ "model" \in DOMAIN llm.kwargs
    /\ "base_url" \notin DOMAIN llm.kwargs
    /\ llm.kwargs["api_key"] = "gm-secret"

\* what the gate itself supplies under a key of the primary backend
GateValue(k) ==
    CASE k = "base_url" -> "https://openrouter.ai/api/v1"
      [] k = "custom_llm_provider" -> "openrouter"
      [] k = "api_key" -> os_getenv(environ, "OPEN_ROUTER_API_KEY")

\* C21: when the caller's own parameters hold a base URL, a provider tag or a
\* credential key, the primary backend's constructor still receives the gate's
\* fixed or environment value under each of these keys and not the caller's;
\* the same holds for the credential key of the alternate backend.
C21_GateValuesOverrideCaller ==
    ctor = "ok" =>
        /\ use_openrouter =>
              \A k \in {"base_url", "custom_llm_provider", "api_key"} \cap DOMAIN rawParameters :
                  /\ llm.kwargs[k] = GateValue(k)
                  /\ llm.kwargs[k] # rawParameters[k]
        /\ (~use_openrouter /\ "api_key" \in DOMAIN rawParameters) =>
              /\ llm.kwargs["api_key"] = os_getenv(environ, "GEMINI_API_KEY")
              /\ llm.kwargs["api_key"] # rawParameters["api_key"]

\* a gate built for the primary provider by a caller who passed a base URL,
\* a provider tag and a credential of its own
C21_Witness ==
    /\ ctor = "ok"
    /\ use_openrouter = TRUE
    /\ {"base_url", "custom_llm_provider", "api_key"} \subseteq DOMAIN rawParameters
    /\ rawParameters["api_key"] = "caller-key"
    /\ llm.kwargs["api_key"] = "or-secret"

----------------------------------------------------------------------------
(* Properties of Configuration.from_runnable_config (SpecConfig) *)

\* the mapping the fields are looked up in: a missing config or a missing
\* "configurable" key gives the empty mapping
GivenConfigurable ==
    IF runnable_config.given /\ "configurable" \in DOMAIN runnable_config.dict
    THEN runnable_config.dict["configurable"]
    ELSE EmptyDict

\* the value chosen for a field: the environment variable envname if set,
\* else the configurable value if present and not None, else the default
Chosen(name, envname, default) ==
    IF envname \in DOMAIN environ THEN environ[envname]
    ELSE IF name \in DOMAIN GivenConfigurable /\ GivenConfigurable[name] # None
         THEN GivenConfigurable[name]
         ELSE default

ChosenModel ==
    Chosen("coordinator_model", "COORDINATOR_MODEL", "str:google/gemini-2.5-flash-lite")

ChosenDelay ==
    Chosen("api_call_delay_seconds", "API_CALL_DELAY_SECONDS", "int:120")

\* C22 as stated: from_runnable_config returns a Configuration in which each
\* field, independently of the others, is the environment variable named by
\* the upper-cased field name if set, else the configurable value if present
\* and not None, else the field's default.
C22_ResolvedByPrecedence ==
    configuration.status # "new" =>
        /\ configuration.status = "ok"
        /\ configuration.fields["coordinator_model"] = ChosenModel
        /\ configuration.fields["api_call_delay_seconds"] = ChosenDelay

\* C22: the value chosen for each field by that precedence is validated
\* against the field's type: when every chosen value is valid the
\* Configuration holds the validated values (a decimal string from the
\* environment becomes the int), and when one is not the call raises
\* ValidationError and returns no Configuration.
C22_ResolvedThenValidated ==
    configuration.status # "new" =>
        IF validate("str", ChosenModel) # Invalid /\ validate("int", ChosenDelay) # Invalid
        THEN /\ configuration.status = "ok"
             /\ configuration.fields["coordinator_model"] = validate("str", ChosenModel)
             /\ configuration.fields["api_call_delay_seconds"] = validate("int", ChosenDelay)
        ELSE configuration.status = "ValidationError"

\* a Configuration whose delay came from the environment, over a configurable
\* value for the same field, and whose model came from the configurable mapping
C22_Witness ==
    /\ configuration.status = "ok"
    /\ "API_CALL_DELAY_SECONDS" \in DOMAIN environ
    /\ "api_call_delay_seconds" \in DOMAIN GivenConfigurable
    /\ GivenConfigurable["api_call_delay_seconds"] = "int:45"
    /\ configuration.fields["api_call_delay_seconds"] = "int:30"
    /\ configuration.fields["coordinator_model"] = "str:cfg-model"

====
